---- MODULE Spec2Model ----
(***************************************************************************)
(* Model of word_total.py: the batch pipeline over a folder of .docx       *)
(* documents (process_document_collection and main), the name extractor    *)
(* (extract_name_from_document), the image downloader (download_image),    *)
(* the image compositor (insert_image_into_document) and the backup step   *)
(* (backup_documents).                                                     *)
(*                                                                         *)
(* Texts are sequences of one-character tokens.  The token FWLP stands for *)
(* the full-width opening parenthesis, "(" for the Latin one, " " and "\t" *)
(* for two whitespace characters, "a" and "b" for any other characters.    *)
(* The enumerated short texts are over "a", the whitespace and the         *)
(* parentheses; "b" occurs in the long texts and in the documents.         *)
(***************************************************************************)
EXTENDS Integers, Sequences, FiniteSets, TLC

\* ------------------------------------------------------------------ bounds
MaxTextLen == 5
MaxDocs == 2

\* ------------------------------------------------------- program constants
NAME_LIMIT == 50
MIN_IMAGE_SIZE == 2048
CHUNK_SIZE == 8192
HTTP_OK == 200

\* ------------------------------------------------------------ small helpers
Min(a, b) == IF a < b THEN a ELSE b

None == <<"<None>">>

FWLP == "FWLP"
Spaces == {" ", "\t"}
Parens == {"(", FWLP}
Alphabet == {"a"} \cup Spaces \cup Parens

\* Python truthiness of an optional string: None and "" are falsy.
Truthy(x) == x # None /\ x # <<>>

\* ------------------------------------------------------------ str.strip()
RECURSIVE lstrip(_)
lstrip(s) ==
    IF s = <<>> THEN <<>>
    ELSE IF Head(s) \in Spaces THEN lstrip(Tail(s)) ELSE s

RECURSIVE rstrip(_)
rstrip(s) ==
    IF s = <<>> THEN <<>>
    ELSE IF s[Len(s)] \in Spaces THEN rstrip(SubSeq(s, 1, Len(s) - 1)) ELSE s

strip(s) == rstrip(lstrip(s))

\* re.sub(r'\s+', ' ', s): every maximal whitespace run becomes one space.
RECURSIVE collapse_ws(_)
collapse_ws(s) ==
    IF s = <<>> THEN <<>>
    ELSE IF Head(s) \in Spaces THEN <<" ">> \o collapse_ws(lstrip(Tail(s)))
    ELSE <<Head(s)>> \o collapse_ws(Tail(s))

\* re.search(r'^([^FWLP\(]+?)[FWLP\(]', line): the match is anchored at the
\* start, group 1 is a non-empty run of non-parenthesis characters and is
\* followed by a parenthesis.  The result is the length of group 1, or 0
\* when there is no match.
name_match(line) ==
    LET idx == {i \in 1..Len(line) : line[i] \in Parens}
    IN IF idx = {} THEN 0
       ELSE LET p == CHOOSE i \in idx : \A j \in idx : i <= j
            IN IF p >= 2 THEN p - 1 ELSE 0

\* extract_name_from_document without the re.sub that collapses whitespace.
extract_name_keep_ws(paragraphs) ==
    IF Len(paragraphs) = 0 THEN None
    ELSE LET first_line == strip(paragraphs[1])
         IN IF first_line = <<>> THEN None
            ELSE LET g == name_match(first_line)
                 IN IF g > 0
                    THEN strip(SubSeq(first_line, 1, g))
                    ELSE SubSeq(first_line, 1, Min(NAME_LIMIT, Len(first_line)))

\* extract_name_from_document(doc); doc.paragraphs is a sequence of texts.
extract_name_from_document(paragraphs) ==
    IF Len(paragraphs) = 0 THEN None
    ELSE LET first_line == strip(paragraphs[1])
         IN IF first_line = <<>> THEN None
            ELSE LET g == name_match(first_line)
                 IN IF g > 0
                    THEN collapse_ws(strip(SubSeq(first_line, 1, g)))
                    ELSE SubSeq(first_line, 1, Min(NAME_LIMIT, Len(first_line)))

\* ------------------------------------------------------------ download_image
\* The destination file is its size in bytes, or NoFile when it does not
\* exist.  A response is what the network and the filesystem do during the
\* call:
\*   connect  requests.get raises (timeout, DNS, refused connection)
\*   status   HTTP status of the answer
\*   open     open(save_path, 'wb') raises (missing directory, permissions)
\*   size     bytes of the payload the server would send
\*   cut      number of chunks iter_content yields before it raises
\*            (NoCut: the stream ends normally)
\*   remove   os.remove raises
NoFile == -1
NoCut == -1

NumChunks(size) == (size + CHUNK_SIZE - 1) \div CHUNK_SIZE

ChunkLen(size, i) == Min(CHUNK_SIZE, size - CHUNK_SIZE * (i - 1))

\* The bytes on disk after the first n chunks were written.
RECURSIVE write_chunks(_, _)
write_chunks(size, n) ==
    IF n = 0 THEN 0 ELSE write_chunks(size, n - 1) + ChunkLen(size, n)

\* download_image(image_url, save_path).
download_image(resp, file) ==
    IF resp.connect THEN [ok |-> FALSE, file |-> file]
    ELSE IF resp.status # HTTP_OK THEN [ok |-> FALSE, file |-> file]
    ELSE IF resp.open THEN [ok |-> FALSE, file |-> file]
    ELSE IF resp.cut # NoCut
         THEN [ok |-> FALSE, file |-> write_chunks(resp.size, resp.cut)]
    ELSE LET written == write_chunks(resp.size, NumChunks(resp.size))
         IN IF written > MIN_IMAGE_SIZE
            THEN [ok |-> TRUE, file |-> written]
            ELSE IF resp.remove THEN [ok |-> FALSE, file |-> written]
            ELSE [ok |-> FALSE, file |-> NoFile]

\* ------------------------------------------------------------- documents
\* A file of the source tree is named by its directory ("." is the source
\* folder, BACKUP_DIR the backup subfolder), a number and an extension.
BACKUP_DIR == "backup_<timestamp>"
Path(dir, n, ext) == [dir |-> dir, name |-> n, ext |-> ext]
NoPath == Path("", -1, "")
DocPath(n) == Path(".", n, "docx")
NotesPath == Path(".", 0, "txt")

\* A document (on disk or in memory): its body paragraphs, whether the style
\* pass and the footer page field were applied, and whether the file is a
\* well-formed package.
Document(paragraphs) ==
    [paragraphs |-> paragraphs, styled |-> FALSE, footer |-> FALSE, valid |-> TRUE]
NoDoc == [closed |-> TRUE]

SPACER == <<>>
HEADING == <<"renwu tupian:">>
PICTURE_SIZED == <<"<picture sized from metadata>">>
PICTURE_DEFAULT == <<"<picture at half page width>">>

\* The bodies the documents of a batch start with: a blank first line, and
\* "a (b" followed by a second paragraph.
DocBodies ==
    { << <<" ", "\t">> >>,
      << <<"a", " ", "(", "b">>, <<"b">> >> }

\* A set of paths as a sequence in directory order (by number, the source
\* folder's entry before the backup folder's).
Before(p, q) == p.name < q.name \/ (p.name = q.name /\ p.dir = "." /\ q.dir # ".")

RECURSIVE in_order(_)
in_order(paths) ==
    IF paths = {} THEN <<>>
    ELSE LET first == CHOOSE p \in paths : \A q \in paths \ {p} : Before(p, q)
         IN <<first>> \o in_order(paths \ {first})

\* A recursive walk (rglob) also yields the copies in the backup subfolder.
glob_docx_recursive(tree) == in_order({p \in DOMAIN tree : p.ext = "docx"})

\* folder.glob("*.docx"): the entries directly inside the folder whose name
\* matches the pattern.
glob_docx(tree) == in_order({p \in DOMAIN tree : p.dir = "." /\ p.ext = "docx"})

\* shutil.copy2(file, backup_folder / file.name)
BackupPath(file) == Path(BACKUP_DIR, file.name, file.ext)

Extend(f, k, v) == [x \in DOMAIN f \cup {k} |-> IF x = k THEN v ELSE f[x]]

copy2(tree, file) == Extend(tree, BackupPath(file), tree[file])

\* ------------------------------------------------------------- statistics
new_statistics(backup_path) ==
    [total |-> 0, success |-> 0, images_found |-> 0, images_inserted |-> 0,
     backup |-> backup_path, failed |-> <<>>]
NoStatistics == [unset |-> TRUE]

new_file_record(doc_file) ==
    [filename |-> doc_file, errors |-> <<>>, chinese_name |-> None]
NoRecord == [unset |-> TRUE]

ERR_PREFIX == "chuli yichang: "

\* except Exception as e: (KeyboardInterrupt is no Exception)
NoExc == [kind |-> "none", msg |-> ""]
Exc(msg) == [kind |-> "Exception", msg |-> msg]
KeyboardInterrupt == [kind |-> "KeyboardInterrupt", msg |-> ""]

catches_everything(e) == TRUE

catches_exception(e) == e.kind = "Exception"

\* The except block without the append to statistics['failed'].
record_failure_dropped(stats, rec, e) == stats

\* The except block putting the record at the front of statistics['failed'].
record_failure_front(stats, rec, e) ==
    [stats EXCEPT !.failed =
        <<[rec EXCEPT !.errors = Append(@, ERR_PREFIX \o e.msg)]>> \o @]

\* file_record['errors'].append(...); statistics['failed'].append(file_record)
record_failure(stats, rec, e) ==
    [stats EXCEPT !.failed =
        Append(@, [rec EXCEPT !.errors = Append(@, ERR_PREFIX \o e.msg)])]

count_found_early(stats, url_found, downloaded) ==
    IF url_found THEN [stats EXCEPT !.images_found = @ + 1] ELSE stats

\* statistics['images_found'] += 1, under "if download_image(...)"
count_found(stats, url_found, downloaded) ==
    IF downloaded THEN [stats EXCEPT !.images_found = @ + 1] ELSE stats

\* An except block that writes the open handle back ("finally: doc.save").
abandon_saving(tree, file, d) == IF d = NoDoc THEN tree ELSE [tree EXCEPT ![file] = d]

\* The except block does not save: the handle of a failed document is dropped.
abandon(tree, file, d) == tree

\* ------------------------------------------------------------ the stages
set_document_styles(d) == [d EXCEPT !.styled = TRUE]

add_dynamic_page_numbers(d) == [d EXCEPT !.footer = TRUE]

\* What the search request meets: a transport failure, a non-200 status, a
\* page none of the three selectors finds a URL in, or a page with a URL.
SearchOutcomes == {"transport_error", "status_404", "no_match", "url"}
IMAGE_URL == <<"https://image">>

search_image_on_bing(name, net) ==
    IF ~Truthy(name) THEN None
    ELSE IF net = "url" THEN IMAGE_URL ELSE None

\* re.sub(r'[^\w一-龥\-]', '_', person_name)
safe_name(name) ==
    [i \in 1..Len(name) |-> IF name[i] \in {"a", "b"} THEN name[i] ELSE "_"]

\* What add_picture meets: Pillow reads the file and the picture is added,
\* Pillow fails and the fall-back add_picture succeeds, or both fail.
EmbedOutcomes == {"sized", "default", "picture_error"}

\* insert_image_into_document(doc, image_path); exists is os.path.exists.
insert_image_into_document(d, exists, embed) ==
    IF ~exists THEN [ok |-> FALSE, doc |-> d]
    ELSE IF embed = "picture_error"
         THEN [ok |-> FALSE,
               doc |-> [d EXCEPT !.paragraphs = @ \o <<SPACER, HEADING, <<>> >>]]
    ELSE [ok |-> TRUE,
          doc |-> [d EXCEPT !.paragraphs = @ \o
                     <<SPACER, HEADING,
                       IF embed = "sized" THEN PICTURE_SIZED ELSE PICTURE_DEFAULT,
                       SPACER>>]]

\* doc.save(doc_file) that fails part-way leaves a damaged file or none of
\* its bytes written.
Damaged == [paragraphs |-> <<>>, styled |-> FALSE, footer |-> FALSE, valid |-> FALSE]

\* ------------------------------------------------------------------ state
VARIABLES
    pc,             \* position in process_document_collection / main
    folder_exists,  \* folder_path.exists()
    enable_backup,  \* the enable_backup argument
    origin,         \* the source tree when the run starts
    fs,             \* the source tree: path -> document
    images,         \* the image folder: file name -> size in bytes
    backup_todo,    \* backup_documents: files its loop has still to copy
    backup_path,    \* local backup_path
    statistics,     \* local statistics
    queue,          \* files the for loop has still to visit
    doc_file,       \* loop variable
    file_record,    \* local file_record
    doc,            \* the open Document
    person_name,    \* local person_name
    image_url,      \* local image_url
    in_try,         \* control is inside the try block of the loop body
    exc,            \* the exception being raised
    results,        \* the value process_document_collection returned
    summary,        \* the counts main printed
    report,         \* the error report file
    log,            \* history: what happened, in order
    call,           \* a function called by itself: the call
    ret             \* a function called by itself: its result

vars == <<pc, folder_exists, enable_backup, origin, fs, images, backup_todo,
          backup_path, statistics, queue, doc_file, file_record, doc,
          person_name, image_url, in_try, exc, results, summary, report, log,
          call, ret>>

inputs == <<folder_exists, enable_backup, origin, call, ret>>
locals == <<doc_file, file_record, doc, person_name, image_url>>
outputs == <<results, summary, report>>

Event(ev, file, info) == [ev |-> ev, file |-> file, info |-> info]

NoReport == [written |-> FALSE]
NoCall == [fn |-> "none"]
NoRet == [done |-> FALSE]

\* Source trees of at most MaxDocs documents and one file that is no document.
Trees ==
    UNION { { Extend(t, NotesPath, Document(<<>>)) :
                t \in [ {DocPath(i) : i \in 1..n} -> {Document(b) : b \in DocBodies} ] }
            : n \in 0..MaxDocs }

EmptyTree == [p \in {} |-> NoDoc]

Init ==
    /\ pc = "start"
    /\ folder_exists \in BOOLEAN
    /\ enable_backup \in BOOLEAN
    /\ fs \in (IF folder_exists THEN Trees ELSE {EmptyTree})
    /\ origin = fs
    /\ images = <<>>
    /\ backup_todo = <<>>
    /\ backup_path = None
    /\ statistics = NoStatistics
    /\ queue = <<>>
    /\ doc_file = NoPath
    /\ file_record = NoRecord
    /\ doc = NoDoc
    /\ person_name = None
    /\ image_url = None
    /\ in_try = FALSE
    /\ exc = NoExc
    /\ results = NoStatistics
    /\ summary = NoStatistics
    /\ report = NoReport
    /\ log = <<>>
    /\ call = NoCall
    /\ ret = NoRet

\* raise e
Raise(e, stage) ==
    /\ exc' = e
    /\ pc' = "raise"
    /\ log' = Append(log, Event("raise", doc_file, stage))

\* ------------------------------------------- process_document_collection
\* if not folder_path.exists(): return {'error': ..., 'failed': []}
CheckFolder ==
    /\ pc = "start"
    /\ IF folder_exists
       THEN /\ pc' = "backup"
            /\ UNCHANGED results
       ELSE /\ pc' = "returned_error"
            /\ results' = [error |-> "wenjianjia bu cunzai", failed |-> <<>>]
    /\ UNCHANGED <<inputs, fs, images, backup_todo, backup_path, statistics, queue,
                   locals, in_try, exc, summary, report, log>>

\* if enable_backup: backup_path = backup_documents(folder_path)
\* backup_documents: backup_folder.mkdir(exist_ok=True); the glob
BackupStart ==
    /\ pc = "backup"
    /\ IF enable_backup
       THEN /\ pc' = "backup_copy"
            /\ backup_todo' = glob_docx(fs)
            /\ log' = Append(log, Event("backup", NoPath, ""))
       ELSE /\ pc' = "init"
            /\ UNCHANGED <<backup_todo, log>>
    /\ UNCHANGED <<inputs, fs, images, backup_path, statistics, queue, locals,
                   in_try, exc, outputs>>

\* backup_documents: one shutil.copy2, or return backup_folder
BackupCopy ==
    /\ pc = "backup_copy"
    /\ IF backup_todo = <<>>
       THEN /\ backup_path' = <<BACKUP_DIR>>
            /\ pc' = "init"
            /\ UNCHANGED <<fs, backup_todo, log>>
       ELSE /\ fs' = copy2(fs, Head(backup_todo))
            /\ backup_todo' = Tail(backup_todo)
            /\ log' = Append(log, Event("copied", Head(backup_todo), ""))
            /\ UNCHANGED <<backup_path, pc>>
    /\ UNCHANGED <<inputs, images, statistics, queue, locals, in_try, exc, outputs>>

\* backup_documents: shutil.copy2 raises (unreadable file, full disk)
BackupCopyFails ==
    /\ pc = "backup_copy"
    /\ backup_todo # <<>>
    /\ Raise(Exc("IOError"), "backup")
    /\ UNCHANGED <<inputs, fs, images, backup_todo, backup_path, statistics, queue,
                   locals, in_try, outputs>>

\* statistics = {...}; the glob of the for loop
InitStatistics ==
    /\ pc = "init"
    /\ statistics' = new_statistics(backup_path)
    /\ queue' = glob_docx(fs)
    /\ pc' = "next"
    /\ UNCHANGED <<inputs, fs, images, backup_todo, backup_path, locals, in_try,
                   exc, outputs, log>>

\* for doc_file in ...: statistics['total'] += 1; file_record = {...}; try:
NextDocument ==
    /\ pc = "next"
    /\ queue # <<>>
    /\ doc_file' = Head(queue)
    /\ queue' = Tail(queue)
    /\ statistics' = [statistics EXCEPT !.total = @ + 1]
    /\ file_record' = new_file_record(Head(queue))
    /\ doc' = NoDoc
    /\ person_name' = None
    /\ image_url' = None
    /\ in_try' = TRUE
    /\ pc' = "open"
    /\ UNCHANGED <<inputs, fs, images, backup_todo, backup_path, exc, outputs, log>>

\* return statistics
Return ==
    /\ pc = "next"
    /\ queue = <<>>
    /\ results' = statistics
    /\ pc' = "returned"
    /\ UNCHANGED <<inputs, fs, images, backup_todo, backup_path, statistics, queue,
                   locals, in_try, exc, summary, report, log>>

\* doc = Document(doc_file)
OpenDocument ==
    /\ pc = "open"
    /\ \/ /\ doc' = fs[doc_file]
          /\ pc' = "styles"
          /\ log' = Append(log, Event("open", doc_file, ""))
          /\ UNCHANGED exc
       \/ /\ Raise(Exc("ParseError"), "open")
          /\ UNCHANGED doc
    /\ UNCHANGED <<inputs, fs, images, backup_todo, backup_path, statistics, queue,
                   doc_file, file_record, person_name, image_url, in_try, outputs>>

\* set_document_styles(doc)
StyleDocument ==
    /\ pc = "styles"
    /\ doc' = set_document_styles(doc)
    /\ \/ /\ pc' = "page_numbers"
          /\ UNCHANGED <<exc, log>>
       \/ Raise(Exc("AttributeError"), "styles")
    /\ UNCHANGED <<inputs, fs, images, backup_todo, backup_path, statistics, queue,
                   doc_file, file_record, person_name, image_url, in_try, outputs>>

\* add_dynamic_page_numbers(doc)
NumberPages ==
    /\ pc = "page_numbers"
    /\ doc' = add_dynamic_page_numbers(doc)
    /\ \/ /\ pc' = "extract"
          /\ UNCHANGED <<exc, log>>
       \/ Raise(Exc("AttributeError"), "page_numbers")
    /\ UNCHANGED <<inputs, fs, images, backup_todo, backup_path, statistics, queue,
                   doc_file, file_record, person_name, image_url, in_try, outputs>>

\* person_name = extract_name_from_document(doc); if person_name: ...
ExtractName ==
    /\ pc = "extract"
    /\ \/ LET name == extract_name_from_document(doc.paragraphs)
          IN /\ person_name' = name
             /\ IF Truthy(name)
                THEN /\ file_record' = [file_record EXCEPT !.chinese_name = name]
                     /\ pc' = "search"
                     /\ UNCHANGED log
                ELSE /\ pc' = "save"
                     /\ log' = Append(log, Event("no_name", doc_file, ""))
                     /\ UNCHANGED file_record
             /\ UNCHANGED exc
       \/ /\ Raise(Exc("ValueError"), "extract")
          /\ UNCHANGED <<person_name, file_record>>
    /\ UNCHANGED <<inputs, fs, images, backup_todo, backup_path, statistics, queue,
                   doc_file, doc, image_url, in_try, outputs>>

Response(connect, status, open, size, cut, remove) ==
    [connect |-> connect, status |-> status, open |-> open, size |-> size,
     cut |-> cut, remove |-> remove]

\* What a download meets during a batch: a 5000-byte image, a 1000-byte
\* payload, a 404 answer, a 10000-byte payload cut after its first chunk.
BatchResponses ==
    { Response(FALSE, HTTP_OK, FALSE, 5000, NoCut, FALSE),
      Response(FALSE, HTTP_OK, FALSE, 1000, NoCut, FALSE),
      Response(FALSE, 404, FALSE, 5000, NoCut, FALSE),
      Response(FALSE, HTTP_OK, FALSE, 10000, 1, FALSE) }

FileAt(dir, name) == IF name \in DOMAIN dir THEN dir[name] ELSE NoFile

PutFile(dir, name, size) ==
    IF size = NoFile THEN [x \in DOMAIN dir \ {name} |-> dir[x]]
    ELSE Extend(dir, name, size)

\* image_url = search_image_on_bing(person_name); if image_url: ...
SearchImage ==
    /\ pc = "search"
    /\ \E net \in SearchOutcomes :
         LET url == search_image_on_bing(person_name, net)
         IN /\ image_url' = url
            /\ IF Truthy(url)
               THEN /\ pc' = "download"
                    /\ UNCHANGED log
               ELSE /\ pc' = "save"
                    /\ log' = Append(log, Event("no_url", doc_file, ""))
    /\ UNCHANGED <<inputs, fs, images, backup_todo, backup_path, statistics, queue,
                   doc_file, file_record, doc, person_name, in_try, exc, outputs>>

\* if download_image(image_url, image_path): statistics['images_found'] += 1
DownloadImage ==
    /\ pc = "download"
    /\ \E resp \in BatchResponses :
         LET image_path == safe_name(person_name)
             r == download_image(resp, FileAt(images, image_path))
         IN /\ images' = PutFile(images, image_path, r.file)
            /\ statistics' = count_found(statistics, Truthy(image_url), r.ok)
            /\ IF r.ok
               THEN /\ pc' = "insert"
                    /\ log' = Append(log, Event("downloaded", doc_file, ""))
               ELSE /\ pc' = "save"
                    /\ log' = Append(log, Event("download_failed", doc_file, ""))
    /\ UNCHANGED <<inputs, fs, backup_todo, backup_path, queue, locals, in_try,
                   exc, outputs>>

\* if insert_image_into_document(doc, image_path):
\*     statistics['images_inserted'] += 1
InsertImage ==
    /\ pc = "insert"
    /\ \E embed \in EmbedOutcomes :
         LET r == insert_image_into_document(
                      doc, safe_name(person_name) \in DOMAIN images, embed)
         IN /\ doc' = r.doc
            /\ IF r.ok
               THEN /\ statistics' = [statistics EXCEPT !.images_inserted = @ + 1]
                    /\ log' = Append(log, Event("embedded", doc_file, embed))
               ELSE /\ log' = Append(log, Event("embed_failed", doc_file, embed))
                    /\ UNCHANGED statistics
    /\ pc' = "save"
    /\ UNCHANGED <<inputs, fs, images, backup_todo, backup_path, queue, doc_file,
                   file_record, person_name, image_url, in_try, exc, outputs>>

\* doc.save(doc_file)
SaveDocument ==
    /\ pc = "save"
    /\ \/ /\ fs' = [fs EXCEPT ![doc_file] = doc]
          /\ pc' = "count"
          /\ log' = Append(log, Event("save", doc_file, ""))
          /\ UNCHANGED exc
       \/ /\ fs' \in {fs, [fs EXCEPT ![doc_file] = Damaged]}
          /\ Raise(Exc("IOError"), "save")
    /\ UNCHANGED <<inputs, images, backup_todo, backup_path, statistics, queue,
                   locals, in_try, outputs>>

\* statistics['success'] += 1; the try block ends
CountSuccess ==
    /\ pc = "count"
    /\ statistics' = [statistics EXCEPT !.success = @ + 1]
    /\ in_try' = FALSE
    /\ pc' = "next"
    /\ UNCHANGED <<inputs, fs, images, backup_todo, backup_path, queue, locals,
                   exc, outputs, log>>

\* except Exception as e: ... ; the loop goes on
HandleException ==
    /\ pc = "raise"
    /\ in_try
    /\ catches_exception(exc)
    /\ statistics' = record_failure(statistics, file_record, exc)
    /\ file_record' = [file_record EXCEPT !.errors = Append(@, ERR_PREFIX \o exc.msg)]
    /\ fs' = abandon(fs, doc_file, doc)
    /\ exc' = NoExc
    /\ in_try' = FALSE
    /\ pc' = "next"
    /\ UNCHANGED <<inputs, images, backup_todo, backup_path, queue, doc_file, doc,
                   person_name, image_url, outputs, log>>

\* An exception no handler of process_document_collection catches reaches
\* main: except KeyboardInterrupt / except Exception.
MainExcept ==
    /\ pc = "raise"
    /\ ~(in_try /\ catches_exception(exc))
    /\ pc' = IF exc.kind = "KeyboardInterrupt" THEN "interrupted" ELSE "crashed"
    /\ in_try' = FALSE
    /\ UNCHANGED <<inputs, fs, images, backup_todo, backup_path, statistics, queue,
                   locals, exc, outputs, log>>

\* Ctrl-C while doc.save is writing the file: the file is left half written.
InterruptDuringSave ==
    /\ pc = "save"
    /\ fs' = [fs EXCEPT ![doc_file] = Damaged]
    /\ exc' = KeyboardInterrupt
    /\ pc' = "raise"
    /\ log' = Append(log, Event("interrupt", doc_file, "saving"))
    /\ UNCHANGED <<inputs, images, backup_todo, backup_path, statistics, queue,
                   locals, in_try, outputs>>

\* ------------------------------------------------------------------- main
\* print(results['total']) ... print(results['images_inserted'])
PrintSummary ==
    /\ pc = "returned"
    /\ summary' = [total |-> results.total, success |-> results.success,
                   images_found |-> results.images_found,
                   images_inserted |-> results.images_inserted]
    /\ pc' = "report"
    /\ UNCHANGED <<inputs, fs, images, backup_todo, backup_path, statistics, queue,
                   locals, in_try, exc, results, report, log>>

\* generate_error_report(failed_records, report_path)
generate_error_report(failed_records, write_ok) ==
    IF failed_records = <<>> THEN NoReport
    ELSE IF write_ok THEN [written |-> TRUE, entries |-> failed_records]
    ELSE NoReport

\* if results['failed']: generate_error_report(...)
WriteReport ==
    /\ pc = "report"
    /\ \E write_ok \in BOOLEAN :
         report' = IF results.failed # <<>>
                   THEN generate_error_report(results.failed, write_ok)
                   ELSE report
    /\ pc' = "done"
    /\ UNCHANGED <<inputs, fs, images, backup_todo, backup_path, statistics, queue,
                   locals, in_try, exc, results, summary, log>>

\* ----------------------------------------------------------- environment
BatchPcs == {"start", "backup", "backup_copy", "init", "next", "open", "styles",
             "page_numbers", "extract", "search", "download", "insert", "save",
             "count", "raise"}

\* The user presses Ctrl-C while process_document_collection runs.
Interrupt ==
    /\ pc \in BatchPcs
    /\ exc.kind # "KeyboardInterrupt"
    /\ exc' = KeyboardInterrupt
    /\ in_try' = (in_try /\ pc # "raise")
    /\ pc' = "raise"
    /\ log' = Append(log, Event("interrupt", doc_file, pc))
    /\ UNCHANGED <<inputs, fs, images, backup_todo, backup_path, statistics, queue,
                   locals, outputs>>

Next ==
    \/ CheckFolder
    \/ BackupStart
    \/ BackupCopy
    \/ BackupCopyFails
    \/ InitStatistics
    \/ NextDocument
    \/ Return
    \/ OpenDocument
    \/ StyleDocument
    \/ NumberPages
    \/ ExtractName
    \/ SearchImage
    \/ DownloadImage
    \/ InsertImage
    \/ SaveDocument
    \/ CountSuccess
    \/ HandleException
    \/ MainExcept
    \/ PrintSummary
    \/ WriteReport
    \/ Interrupt
    \/ InterruptDuringSave

Spec == Init /\ [][Next]_vars

\* ------------------------------------------------- the functions by themselves
\* Texts of at most MaxTextLen characters, and long lines around the
\* NAME_LIMIT: a short head, a run of "a", a short tail.
RECURSIVE Repeat(_, _)
Repeat(c, n) == IF n = 0 THEN <<>> ELSE <<c>> \o Repeat(c, n - 1)

ShortTexts == UNION { [1..n -> Alphabet] : n \in 0..MaxTextLen }

LongTexts ==
    { h \o Repeat("a", n) \o t :
        h \in {<<>>, <<" ">>, <<"(">>, <<"b", " ">>},
        n \in (NAME_LIMIT - 2)..(NAME_LIMIT + 1),
        t \in {<<>>, <<" ">>, <<FWLP>>, <<" ", "b">>} }

Texts == ShortTexts \cup LongTexts

ExtractCalls ==
    {[fn |-> "extract", paragraphs |-> <<>>]}
    \cup {[fn |-> "extract", paragraphs |-> <<t>>] : t \in Texts}
    \cup {[fn |-> "extract", paragraphs |-> <<t, <<"b", "(">> >>] : t \in ShortTexts}

PayloadSizes == {0, 1000, 2047, 2048, 2049, 5000, 8192, 10000}

Responses ==
    { Response(c, st, o, sz, cut, rm) :
        c \in BOOLEAN, st \in {HTTP_OK, 404}, o \in BOOLEAN, sz \in PayloadSizes,
        cut \in {NoCut, 0, 1}, rm \in BOOLEAN }

DownloadCalls ==
    { [fn |-> "download", resp |-> r, file |-> f] :
        r \in {x \in Responses : x.cut <= NumChunks(x.size)}, f \in {NoFile, 5000} }

InitFn ==
    /\ pc = "call"
    /\ folder_exists = FALSE
    /\ enable_backup = FALSE
    /\ fs = EmptyTree
    /\ origin = fs
    /\ images = <<>>
    /\ backup_todo = <<>>
    /\ backup_path = None
    /\ statistics = NoStatistics
    /\ queue = <<>>
    /\ doc_file = NoPath
    /\ file_record = NoRecord
    /\ doc = NoDoc
    /\ person_name = None
    /\ image_url = None
    /\ in_try = FALSE
    /\ exc = NoExc
    /\ results = NoStatistics
    /\ summary = NoStatistics
    /\ report = NoReport
    /\ log = <<>>
    /\ call \in ExtractCalls \cup DownloadCalls
    /\ ret = NoRet

batch == <<folder_exists, enable_backup, origin, fs, images, backup_todo,
           backup_path, statistics, queue, doc_file, file_record, doc,
           person_name, image_url, in_try, exc, results, summary, report, log>>

CallExtractName ==
    /\ pc = "call"
    /\ call.fn = "extract"
    /\ ret' = [done |-> TRUE, name |-> extract_name_from_document(call.paragraphs)]
    /\ pc' = "called"
    /\ UNCHANGED <<batch, call>>

CallDownloadImage ==
    /\ pc = "call"
    /\ call.fn = "download"
    /\ LET r == download_image(call.resp, call.file)
       IN ret' = [done |-> TRUE, ok |-> r.ok, file |-> r.file]
    /\ pc' = "called"
    /\ UNCHANGED <<batch, call>>

NextFn ==
    \/ CallExtractName
    \/ CallDownloadImage

SpecFn == InitFn /\ [][NextFn]_vars

\* ================================================================ claims
EventsOf(ev) == SelectSeq(log, LAMBDA e : e.ev = ev)
FilesOf(ev) == {log[i].file : i \in {j \in DOMAIN log : log[j].ev = ev}}
SourceDocs == {p \in DOMAIN origin : p.dir = "." /\ p.ext = "docx"}
Returned == pc \in {"returned", "report", "done"}
Balanced(st) ==
    /\ st.success + Len(st.failed) = st.total
    /\ st.images_inserted <= st.images_found
    /\ st.images_found <= st.total

\* C1: after every completed document iteration, and in the value returned,
\* success + len(failed) = total and images_inserted <= images_found <= total.
C1_StatisticsBalance ==
    /\ (pc = "next" => Balanced(statistics))
    /\ (Returned => Balanced(results))

C1_Witness ==
    /\ pc = "returned"
    /\ results.total = 2
    /\ results.success = 1
    /\ Len(results.failed) = 1
    /\ results.images_found = 1
    /\ results.images_inserted = 0

StageError(stage) ==
    CASE stage = "open" -> "ParseError"
      [] stage = "styles" -> "AttributeError"
      [] stage = "page_numbers" -> "AttributeError"
      [] stage = "extract" -> "ValueError"
      [] stage = "save" -> "IOError"
      [] OTHER -> "?"

\* C2: a stage of one document that raises is caught and recorded, and the
\* loop goes on: in the value returned, failed holds one record per document
\* a stage raised for, in processing order, each with the one error string of
\* its exception; every document of the folder was visited and every other
\* document was saved and counted in success.
C2_FailuresIsolated ==
    Returned =>
        LET raised == EventsOf("raise")
        IN /\ Len(results.failed) = Len(raised)
           /\ \A i \in 1..Len(raised) :
                /\ i <= Len(results.failed)
                /\ results.failed[i].filename = raised[i].file
                /\ results.failed[i].errors =
                       <<ERR_PREFIX \o StageError(raised[i].info)>>
           /\ results.total = Cardinality(SourceDocs)
           /\ results.success = Cardinality(SourceDocs \ FilesOf("raise"))
           /\ SourceDocs \ FilesOf("raise") = FilesOf("save") \ FilesOf("raise")

C2_Witness ==
    /\ pc = "returned"
    /\ Len(results.failed) = 1
    /\ results.failed[1].filename = DocPath(1)
    /\ DocPath(2) \in FilesOf("save")

Logged == {log[i] : i \in DOMAIN log}
Position(e) == CHOOSE i \in DOMAIN log : log[i] = e
Released == FilesOf("save") \cup FilesOf("raise") \cup FilesOf("interrupt")

\* C3: a document is saved at most once per run and only with all its earlier
\* stages done; a document whose processing failed before the save, or is
\* still in progress, has its original content on disk (only a save that
\* itself failed or was interrupted can have touched the file); at most one
\* opened document is neither saved nor abandoned, the current one, so that
\* a document is opened only after the ones opened before it were saved or
\* abandoned.
C3_SaveDiscipline ==
    /\ Len(EventsOf("save")) = Cardinality(FilesOf("save"))
    /\ \A p \in FilesOf("save") :
         /\ fs[p].valid /\ fs[p].styled /\ fs[p].footer
         /\ Event("open", p, "") \in Logged
         /\ Position(Event("open", p, "")) < Position(Event("save", p, ""))
         /\ p \notin FilesOf("raise")
    /\ \A p \in SourceDocs :
         (p \notin FilesOf("save")
            /\ {Event("raise", p, "save"), Event("interrupt", p, "saving")}
                   \cap Logged = {})
            => fs[p] = origin[p]
    /\ FilesOf("open") \ Released \subseteq {doc_file}

C3_Witness ==
    /\ pc = "returned"
    /\ Event("raise", DocPath(1), "extract") \in Logged
    /\ DocPath(2) \in FilesOf("save")
    /\ fs[DocPath(2)] # origin[DocPath(2)]

Written == {p \in SourceDocs : fs[p] # origin[p]}

\* C4: with backup enabled the snapshot is taken once, and whenever a document
\* of the folder has been written the backup folder holds the original of
\* every document the folder held when the run started; the copies in the
\* backup folder are never visited by the loop; with backup disabled there is
\* no snapshot and the backup location of the statistics is empty.
C4_BackupBeforeSave ==
    /\ Len(EventsOf("backup")) <= 1
    /\ (enable_backup /\ (Written # {} \/ FilesOf("save") # {})) =>
         /\ Len(EventsOf("backup")) = 1
         /\ \A p \in SourceDocs :
              /\ BackupPath(p) \in DOMAIN fs
              /\ fs[BackupPath(p)] = origin[p]
    /\ \A i \in DOMAIN log : log[i].file.dir # BACKUP_DIR
    /\ (enable_backup /\ statistics # NoStatistics) => statistics.backup = <<BACKUP_DIR>>
    /\ ~enable_backup =>
         /\ EventsOf("backup") = <<>>
         /\ \A p \in DOMAIN fs : p.dir = "."
         /\ statistics # NoStatistics => statistics.backup = None
         /\ Returned => results.backup = None

C4_Witness ==
    /\ enable_backup
    /\ pc = "returned"
    /\ FilesOf("save") = {DocPath(1), DocPath(2)}
    /\ fs[BackupPath(DocPath(1))] # fs[DocPath(1)]

\* C5 (as claimed): once the source folder exists no failure ends the batch
\* without statistics: no exception leaves process_document_collection for
\* main's "except Exception".
C5_NothingTerminatesBatch == folder_exists => pc # "crashed"

SoftFiles ==
    FilesOf("no_name") \cup FilesOf("no_url") \cup FilesOf("download_failed")
        \cup FilesOf("embed_failed")

\* C6: a name that is absent, a search without URL, a failed download and a
\* failed embed are no document failures: in the value returned such a
\* document, unless one of its stages raised, was saved and is not in failed;
\* images_found counts the successful downloads and images_inserted the
\* successful embeds.
C6_SoftImageFailures ==
    Returned =>
        /\ \A p \in SoftFiles \ FilesOf("raise") :
             /\ p \in FilesOf("save")
             /\ \A i \in DOMAIN results.failed : results.failed[i].filename # p
        /\ results.success >= Cardinality(SoftFiles \ FilesOf("raise"))
        /\ results.images_found = Len(EventsOf("downloaded"))
        /\ results.images_inserted = Len(EventsOf("embedded"))

C6_Witness ==
    /\ pc = "returned"
    /\ DocPath(1) \in FilesOf("download_failed")
    /\ DocPath(2) \in FilesOf("embed_failed")
    /\ results.success = 2
    /\ results.failed = <<>>
    /\ results.images_found = 1
    /\ results.images_inserted = 0

\* C7 (as claimed): download_image accepts only a file of more than 2048
\* bytes, and when it reports failure no file is left at the destination
\* (stated for a destination that held no file before the call and an
\* os.remove that works).
C7_FailureLeavesNoFile ==
    (ret.done /\ call.fn = "download" /\ call.file = NoFile /\ ~call.resp.remove) =>
        /\ ret.ok => ret.file > MIN_IMAGE_SIZE
        /\ ~ret.ok => ret.file = NoFile

\* C8: what the claim says extract_name_from_document returns.
NonSpaces(s) == {i \in 1..Len(s) : s[i] \notin Spaces}
Least(S) == CHOOSE i \in S : \A j \in S : i <= j
Greatest(S) == CHOOSE i \in S : \A j \in S : i >= j
Trimmed(s) ==
    IF NonSpaces(s) = {} THEN <<>>
    ELSE SubSeq(s, Least(NonSpaces(s)), Greatest(NonSpaces(s)))
ParenAt(s) == {i \in 1..Len(s) : s[i] \in Parens}

\* r is s trimmed with every whitespace run collapsed to one space: r has no
\* leading, trailing or doubled space and no tab, and r and s hold the same
\* words in the same order.
WordStarts(s) ==
    {i \in NonSpaces(s) : i = 1 \/ s[i - 1] \in Spaces}
WordEnd(s, i) ==
    Least({j \in i..Len(s) : j = Len(s) \/ s[j + 1] \in Spaces})
RECURSIVE JoinWords(_, _)
JoinWords(s, starts) ==
    IF starts = {} THEN <<>>
    ELSE LET i == Least(starts)
             w == SubSeq(s, i, WordEnd(s, i))
         IN IF starts = {i} THEN w
            ELSE w \o <<" ">> \o JoinWords(s, starts \ {i})
Normalized(s) == JoinWords(s, WordStarts(s))

ClaimedName(paragraphs) ==
    IF paragraphs = <<>> THEN None
    ELSE LET text == paragraphs[1]
         IN IF NonSpaces(text) = {} THEN None
            ELSE IF ParenAt(text) # {}
                 THEN Normalized(SubSeq(text, 1, Least(ParenAt(text)) - 1))
                 ELSE SubSeq(Trimmed(text), 1, Min(NAME_LIMIT, Len(Trimmed(text))))

\* C8 (as claimed): every text with an opening parenthesis, also one that
\* starts with it, yields what precedes the parenthesis.
C8_NameAsClaimed ==
    (ret.done /\ call.fn = "extract") => ret.name = ClaimedName(call.paragraphs)

AmendedName(paragraphs) ==
    IF paragraphs = <<>> THEN None
    ELSE LET text == paragraphs[1]
         IN IF NonSpaces(text) = {} THEN None
            ELSE IF ParenAt(text) # {} /\ Least(ParenAt(text)) > Least(NonSpaces(text))
                 THEN Normalized(SubSeq(text, 1, Least(ParenAt(text)) - 1))
                 ELSE SubSeq(Trimmed(text), 1, Min(NAME_LIMIT, Len(Trimmed(text))))

\* C8 (amended): null without paragraphs or with a blank first paragraph; for
\* a first paragraph with an opening parenthesis that is not its first
\* non-blank character, what precedes the first parenthesis, trimmed and with
\* whitespace runs collapsed; for any other text, a text whose first
\* non-blank character is the parenthesis included, the trimmed text cut to
\* 50 characters.
C8_NameAmended ==
    (ret.done /\ call.fn = "extract") => ret.name = AmendedName(call.paragraphs)

C8_Witness ==
    /\ ret.done
    /\ call.fn = "extract"
    /\ call.paragraphs = << <<" ", "(", "a">> >>
    /\ ret.name = <<"(", "a">>

InProgress == {"open", "styles", "page_numbers", "extract", "search", "download",
               "insert", "save", "saving"}
Interrupted == \E i \in DOMAIN log : log[i].ev = "interrupt"

\* C9: after an interrupt no document is opened or saved, nothing on disk
\* changes (the document in progress is not saved, saved documents keep their
\* content), and neither the summary nor the report is produced.
C9_InterruptStops ==
    [][Interrupted =>
         /\ fs' = fs
         /\ log' = log
         /\ statistics' = statistics
         /\ report = NoReport /\ report' = NoReport
         /\ summary = NoStatistics /\ summary' = NoStatistics
         /\ pc' \in {"raise", "interrupted"}
         /\ \A i \in DOMAIN log :
              (log[i].ev = "interrupt" /\ log[i].info \in InProgress)
                 => log[i].file \notin FilesOf("save")]_vars

C9_Witness ==
    /\ pc = "interrupted"
    /\ DocPath(1) \in FilesOf("save")
    /\ log[Len(log)] = Event("interrupt", DocPath(2), "save")
    /\ fs[DocPath(2)] = origin[DocPath(2)]

HasHeading(d) == \E i \in DOMAIN d.paragraphs : d.paragraphs[i] = HEADING

\* C10 (as claimed): a saved document carries the image heading exactly when
\* its image was embedded and counted in images_inserted.
C10_HeadingIffInserted ==
    \A p \in FilesOf("save") :
        fs[p].valid => (HasHeading(fs[p]) <=> p \in FilesOf("embedded"))

====
